---- MODULE Spec2Model ----
\* Constant pool of kirjava's class-file reader/writer: ConstantPool.read with its
\* deferred-reference work queue, ConstantPool.write, and the mutating pool API
\* (add, __setitem__, clear), modelled from classfile/constants.pyx.
EXTENDS Integers, Sequences, FiniteSets, TLC

VARIABLES
    pc,                 \* "idle" | "read" | "fixup" | "write" | "raised"
    err,                \* the exception that ended the last call, "none" if it returned
    version,            \* major version handed to ConstantPool.read
    input,              \* the buffer read from: [count, entries]
    pos,                \* buffer cursor of read: entries consumed so far
    offset,             \* cdef int offset of read / of write
    uncomputed,         \* read's work queue of <<offset, tag, info>>
    stalled,            \* fix-up steps since the last one that resolved an entry
    _index,             \* ConstantPool._index
    _forward_entries,   \* ConstantPool._forward_entries: index -> constant
    _backward_entries,  \* ConstantPool._backward_entries: constant -> index
    output,             \* the buffer written to: [count, entries]
    pristine,           \* the pool is as read returned it: no mutating call since
    onlyAdd,            \* the pool came from ConstantPool() or clear() by add alone
    last,               \* the last API call: [op, arg, at, ret, new, was]
    blocks,             \* the InsnBlock objects: id -> [label, _instructions, inline_]
    bcall               \* the last InsnBlock call: [op, block, arg, do_raise, err]

vars == <<pc, err, version, input, pos, offset, uncomputed, stalled, _index,
          _forward_entries, _backward_entries, output, pristine, onlyAdd, last,
          blocks, bcall>>

\* The pool and its calls, which no InsnBlock call touches
constantVars == <<pc, err, version, input, pos, offset, uncomputed, stalled, _index,
                  _forward_entries, _backward_entries, output, pristine, onlyAdd, last>>

\* The blocks, which no ConstantPool call touches
blockVars == <<blocks, bcall>>

poolVars == <<_index, _forward_entries, _backward_entries>>
readVars == <<version, input, pos, uncomputed, stalled>>

\* ---------------------------------------------------------------- bounds

\* Highest pool index a reference field of a one- or two-entry input may name.
MaxRef == 3
\* Longest input built by arranging the entries of a kit.
MaxChain == 5
\* add is explored while _index is at most this.
MaxIndex == 3
\* Highest index handed to __setitem__, explored while _index is at most this.
MaxSet == 2

\* ---------------------------------------------------------------- constants

\* dict.get(key, None) of a missing key, and a dereference that returns None
None == <<>>

Index(index) == <<-1, index>>
UTF8(value) == <<1, value>>
Integer(value) == <<3, value>>
Float(value) == <<4, value>>
Long(value) == <<5, value>>
Double(value) == <<6, value>>
Class(name) == <<7, name>>
String(value) == <<8, value>>
FieldRef(class_, name_and_type) == <<9, class_, name_and_type>>
MethodRef(class_, name_and_type) == <<10, class_, name_and_type>>
InterfaceMethodRef(class_, name_and_type) == <<11, class_, name_and_type>>
NameAndType(name, descriptor) == <<12, name, descriptor>>
MethodHandle(reference_kind, reference) == <<15, reference_kind, reference>>
MethodType(descriptor) == <<16, descriptor>>
Dynamic(bootstrap_method_attr_index, name_and_type) ==
    <<17, bootstrap_method_attr_index, name_and_type>>
InvokeDynamic(bootstrap_method_attr_index, name_and_type) ==
    <<18, bootstrap_method_attr_index, name_and_type>>
Module(name) == <<19, name>>
Package(name) == <<20, name>>

\* constant.tag
tag(constant) == constant[1]

\* _constant_map: the tags of CONSTANTS
_constant_map == {1, 3, 4, 5, 6, 7, 8, 9, 10, 11, 12, 15, 16, 17, 18, 19, 20}

\* constant.wide: True for Long and Double only
wide(t) == t \in {5, 6}

\* since with Module and Package introduced one version early
since_early(t) ==
    CASE t \in {15, 16, 18} -> 51
      [] t = 17 -> 55
      [] t \in {19, 20} -> 52
      [] OTHER -> 45

\* constant.since, as the major version
since(t) ==
    CASE t \in {15, 16, 18} -> 51
      [] t = 17 -> 55
      [] t \in {19, 20} -> 53
      [] OTHER -> 45

\* Version.__gt__ of `constant.since > version`: versions are ordered by their major
\* number first, and every since has minor 0
VersionGt(since_, version_) == since_ > version_

\* isinstance(constant, cls): MethodRef's instances include InterfaceMethodRef's
isinstance(constant, tags) == constant # None /\ tag(constant) \in tags

\* Constant.__eq__ / __hash__ of the dict keys: structural on the resolved form
ConstEq(c, d) == c = d

\* ---------------------------------------------------------------- MUTF-8

RECURSIVE ReplaceC080(_)
\* bytes.replace(b"\xc0\x80", b"\x00")
ReplaceC080(b) ==
    IF b = <<>> THEN <<>>
    ELSE IF Len(b) >= 2 /\ b[1] = 192 /\ b[2] = 128
         THEN <<0>> \o ReplaceC080(SubSeq(b, 3, Len(b)))
         ELSE <<b[1]>> \o ReplaceC080(Tail(b))

\* The second bytes the UTF-8 decoder accepts after a lead byte of a three- or
\* four-byte sequence: no overlong form, no surrogate, nothing above U+10FFFF
Second(lead) ==
    IF lead = 224 THEN 160..191
    ELSE IF lead = 237 THEN 128..159
    ELSE IF lead = 240 THEN 144..191
    ELSE IF lead = 244 THEN 128..143
    ELSE 128..191

RECURSIVE DecodeIgnore(_)
\* bytes.decode("utf-8", errors="ignore"): the sequences of one to four bytes that
\* are valid UTF-8 decode, and a byte that starts no valid sequence is dropped (the
\* bytes of a sequence broken off are continuation bytes, dropped one by one)
DecodeIgnore(b) ==
    IF b = <<>> THEN <<>>
    ELSE IF b[1] < 128 THEN <<b[1]>> \o DecodeIgnore(Tail(b))
    ELSE IF b[1] \in 194..223 /\ Len(b) >= 2 /\ b[2] \in 128..191
         THEN <<(b[1] - 192) * 64 + (b[2] - 128)>> \o DecodeIgnore(SubSeq(b, 3, Len(b)))
    ELSE IF /\ b[1] \in 224..239 /\ Len(b) >= 3
            /\ b[2] \in Second(b[1]) /\ b[3] \in 128..191
         THEN <<(b[1] - 224) * 4096 + (b[2] - 128) * 64 + (b[3] - 128)>>
              \o DecodeIgnore(SubSeq(b, 4, Len(b)))
    ELSE IF /\ b[1] \in 240..244 /\ Len(b) >= 4
            /\ b[2] \in Second(b[1]) /\ b[3] \in 128..191 /\ b[4] \in 128..191
         THEN <<(b[1] - 240) * 262144 + (b[2] - 128) * 4096 + (b[3] - 128) * 64 + (b[4] - 128)>>
              \o DecodeIgnore(SubSeq(b, 5, Len(b)))
    ELSE DecodeIgnore(Tail(b))

RECURSIVE EncodeUTF8(_)
\* str.encode("utf-8") of a string that holds no surrogate (one raises
\* UnicodeEncodeError)
EncodeUTF8(s) ==
    IF s = <<>> THEN <<>>
    ELSE IF s[1] < 128 THEN <<s[1]>> \o EncodeUTF8(Tail(s))
    ELSE IF s[1] < 2048
         THEN <<192 + (s[1] \div 64), 128 + (s[1] % 64)>> \o EncodeUTF8(Tail(s))
    ELSE IF s[1] < 65536
         THEN <<224 + (s[1] \div 4096), 128 + ((s[1] \div 64) % 64), 128 + (s[1] % 64)>>
              \o EncodeUTF8(Tail(s))
    ELSE <<240 + (s[1] \div 262144), 128 + ((s[1] \div 4096) % 64),
           128 + ((s[1] \div 64) % 64), 128 + (s[1] % 64)>> \o EncodeUTF8(Tail(s))

RECURSIVE Replace00(_)
\* bytes.replace(b"\x00", b"\xc0\x80")
Replace00(b) ==
    IF b = <<>> THEN <<>>
    ELSE IF b[1] = 0 THEN <<192, 128>> \o Replace00(Tail(b))
         ELSE <<b[1]>> \o Replace00(Tail(b))

\* UTF8.read: the payload after the length prefix, decoded
UTF8_read(payload) == UTF8(DecodeIgnore(ReplaceC080(payload)))

\* UTF8.write that emits U+0000 as UTF-8 does
write_unreplaced(value) == EncodeUTF8(value)

\* UTF8.write: the payload emitted after the length prefix
UTF8_write(value) == Replace00(EncodeUTF8(value))

\* pack_H and unpack_H: an unsigned 16-bit integer, big-endian
pack_H(n) == <<n \div 256, n % 256>>
unpack_H(b) == b[1] * 256 + b[2]

\* UTF8.write, the bytes put in the buffer: the length of the payload, then the payload
UTF8_emit(constant) ==
    LET value == UTF8_write(constant[2])
    IN  pack_H(Len(value)) \o value

\* UTF8.read of a buffer: buffer.read(n) returns the bytes there are, up to n
UTF8_parse(buffer) ==
    LET n == unpack_H(SubSeq(buffer, 1, 2))
        end == IF 2 + n > Len(buffer) THEN Len(buffer) ELSE 2 + n
    IN  UTF8_read(SubSeq(buffer, 3, end))

\* ---------------------------------------------------------------- dicts

\* d[key] = value
Put(d, key, value) ==
    [k \in (DOMAIN d) \cup {key} |-> IF k = key THEN value ELSE d[k]]

\* d.get(key, None)
Get(d, key) == IF key \in DOMAIN d THEN d[key] ELSE None

\* ---------------------------------------------------------------- dereference

Resolved(constant) == [kind |-> "resolved", value |-> constant]
Pending == [kind |-> "pending", value |-> None]
TypeError == [kind |-> "TypeError", value |-> None]

\* Class / String / MethodType / Module / Package .dereference: one Utf8 referent,
\* looked up once; anything but a UTF8, a missing entry included, raises
DerefUtf8(t, lookups, info) ==
    LET name == Get(lookups, info[1])
    IN  IF ~isinstance(name, {1}) THEN TypeError
        ELSE Resolved(<<t, name[2]>>)

\* NameAndType.dereference
DerefNameAndType(lookups, info) ==
    LET name == Get(lookups, info[1])
        descriptor == Get(lookups, info[2])
    IN  IF ~isinstance(name, {1}) THEN TypeError
        ELSE IF ~isinstance(descriptor, {1}) THEN TypeError
        ELSE Resolved(NameAndType(name[2], descriptor[2]))

\* DerefRef with the two referents handed to the constructor in the wrong order
DerefRefSwapped(t, lookups, info) ==
    LET class_ == Get(lookups, info[1])
        name_and_type == Get(lookups, info[2])
    IN  IF class_ = None THEN Pending
        ELSE IF ~isinstance(class_, {7}) THEN TypeError
        ELSE IF name_and_type = None THEN Pending
        ELSE IF ~isinstance(name_and_type, {12}) THEN TypeError
        ELSE Resolved(<<t, name_and_type, class_>>)

\* DerefRef that builds the reference from whatever the name-and-type slot holds
\* once the class is there
DerefRefEager(t, lookups, info) ==
    LET class_ == Get(lookups, info[1])
        name_and_type == Get(lookups, info[2])
    IN  IF class_ = None THEN Pending
        ELSE IF ~isinstance(class_, {7}) THEN TypeError
        ELSE IF name_and_type # None /\ ~isinstance(name_and_type, {12}) THEN TypeError
        ELSE Resolved(<<t, class_, name_and_type>>)

\* DerefRef without the isinstance check of the name-and-type
DerefRefUnchecked(t, lookups, info) ==
    LET class_ == Get(lookups, info[1])
        name_and_type == Get(lookups, info[2])
    IN  IF class_ = None THEN Pending
        ELSE IF ~isinstance(class_, {7}) THEN TypeError
        ELSE IF name_and_type = None THEN Pending
        ELSE Resolved(<<t, class_, name_and_type>>)

\* FieldRef / MethodRef / InterfaceMethodRef .dereference: the class is examined
\* first, and a missing class returns None before the name-and-type is looked at
DerefRef(t, lookups, info) ==
    LET class_ == Get(lookups, info[1])
        name_and_type == Get(lookups, info[2])
    IN  IF class_ = None THEN Pending
        ELSE IF ~isinstance(class_, {7}) THEN TypeError
        ELSE IF name_and_type = None THEN Pending
        ELSE IF ~isinstance(name_and_type, {12}) THEN TypeError
        ELSE Resolved(<<t, class_, name_and_type>>)

\* MethodHandle.dereference (the raise formats its message by calling a str,
\* which is a TypeError too)
DerefMethodHandle(lookups, info) ==
    LET reference == Get(lookups, info[2])
    IN  IF reference = None THEN Pending
        ELSE IF ~isinstance(reference, {9}) /\ ~isinstance(reference, {10, 11})
             THEN TypeError
        ELSE Resolved(MethodHandle(info[1], reference))

\* Dynamic / InvokeDynamic .dereference
DerefDynamic(t, lookups, info) ==
    LET name_and_type == Get(lookups, info[2])
    IN  IF name_and_type = None THEN Pending
        ELSE IF ~isinstance(name_and_type, {12}) THEN TypeError
        ELSE Resolved(<<t, info[1], name_and_type>>)

\* constant.dereference(lookups, info), by the class the tag selects
dereference(t, lookups, info) ==
    CASE t \in {7, 8, 16, 19, 20} -> DerefUtf8(t, lookups, info)
      [] t = 12 -> DerefNameAndType(lookups, info)
      [] t \in {9, 10, 11} -> DerefRef(t, lookups, info)
      [] t = 15 -> DerefMethodHandle(lookups, info)
      [] t \in {17, 18} -> DerefDynamic(t, lookups, info)

\* The stream ends inside the fixed-width field that follows the tag (the payload,
\* or the length of a Utf8): the entry is its tag alone, and unpacking the short
\* read raises
CutShort(entry) == Len(entry) = 1

\* constant.read(buffer) of the entry after its tag byte: a ConstantInfo for the
\* five value variants, the reference indices (info) for the others
IsValueTag(t) == t \in {1, 3, 4, 5, 6}

constant_read(entry) ==
    IF tag(entry) = 1 THEN UTF8_read(entry[2])
    ELSE IF IsValueTag(tag(entry)) THEN <<tag(entry), entry[2]>>
    ELSE Tail(entry)

\* ---------------------------------------------------------------- pool operations

Pool == [index |-> _index, forward |-> _forward_entries, backward |-> _backward_entries]

\* ConstantPool.__init__
EmptyPool == [index |-> 1, forward |-> <<>>, backward |-> <<>>]

\* A Python str handed to add (model encoding of the argument only)
Str(value) == <<0, value>>

\* add without the early return for an Index, which is then stored like a constant
add_index_stored(pool, constant0) ==
    LET constant == IF tag(constant0) = 0 THEN UTF8(constant0[2]) ELSE constant0
    IN  IF \E k \in DOMAIN pool.backward : ConstEq(k, constant)
        THEN [pool |-> pool, ret |-> pool.backward[constant]]
        ELSE [pool |-> [forward |-> Put(pool.forward, pool.index, constant),
                        backward |-> Put(pool.backward, constant, pool.index),
                        index |-> pool.index + 1 + (IF wide(tag(constant)) THEN 1 ELSE 0)],
              ret |-> pool.index]

\* add without the lookup in _backward_entries
add_always(pool, constant0) ==
    LET constant == IF tag(constant0) = 0 THEN UTF8(constant0[2]) ELSE constant0
    IN  IF tag(constant0) = -1 THEN [pool |-> pool, ret |-> constant0[2]]
        ELSE [pool |-> [forward |-> Put(pool.forward, pool.index, constant),
                        backward |-> Put(pool.backward, constant, pool.index),
                        index |-> pool.index + 1 + (IF wide(tag(constant)) THEN 1 ELSE 0)],
              ret |-> pool.index]

\* add that inserts without recording the constant in _backward_entries
add_unrecorded(pool, constant0) ==
    LET constant == IF tag(constant0) = 0 THEN UTF8(constant0[2]) ELSE constant0
    IN  IF tag(constant0) = -1 THEN [pool |-> pool, ret |-> constant0[2]]
        ELSE IF \E k \in DOMAIN pool.backward : ConstEq(k, constant)
        THEN [pool |-> pool, ret |-> pool.backward[constant]]
        ELSE [pool |-> [forward |-> Put(pool.forward, pool.index, constant),
                        backward |-> pool.backward,
                        index |-> pool.index + 1 + (IF wide(tag(constant)) THEN 1 ELSE 0)],
              ret |-> pool.index]

\* add that advances _index by one whatever the constant
add_narrow(pool, constant0) ==
    LET constant == IF tag(constant0) = 0 THEN UTF8(constant0[2]) ELSE constant0
    IN  IF tag(constant0) = -1 THEN [pool |-> pool, ret |-> constant0[2]]
        ELSE IF \E k \in DOMAIN pool.backward : ConstEq(k, constant)
        THEN [pool |-> pool, ret |-> pool.backward[constant]]
        ELSE [pool |-> [forward |-> Put(pool.forward, pool.index, constant),
                        backward |-> Put(pool.backward, constant, pool.index),
                        index |-> pool.index + 1],
              ret |-> pool.index]

\* ConstantPool.add: [pool, ret], the pool afterwards and the index returned
add(pool, constant0) ==
    LET constant == IF tag(constant0) = 0 THEN UTF8(constant0[2]) ELSE constant0
    IN  IF tag(constant0) = -1 THEN [pool |-> pool, ret |-> constant0[2]]
        ELSE IF \E k \in DOMAIN pool.backward : ConstEq(k, constant)
        THEN [pool |-> pool, ret |-> pool.backward[constant]]
        ELSE [pool |-> [forward |-> Put(pool.forward, pool.index, constant),
                        backward |-> Put(pool.backward, constant, pool.index),
                        index |-> pool.index + 1 + (IF wide(tag(constant)) THEN 1 ELSE 0)],
              ret |-> pool.index]

\* ConstantPool.add_utf8
add_utf8(pool, value) == add(pool, Str(value))

\* constant.write(class_file, buffer) after the tag byte: [pool, entry], the pool
\* after the adds the write makes and the entry emitted (tag included)
constant_write(pool, constant) ==
    LET t == tag(constant)
    IN  CASE t = 1 -> [pool |-> pool, entry |-> <<1, UTF8_write(constant[2])>>]
          [] t \in {3, 4, 5, 6} -> [pool |-> pool, entry |-> constant]
          [] t \in {7, 8, 16, 19, 20} ->
                LET a == add_utf8(pool, constant[2])
                IN  [pool |-> a.pool, entry |-> <<t, a.ret>>]
          [] t = 12 ->
                LET a == add_utf8(pool, constant[2])
                    b == add_utf8(a.pool, constant[3])
                IN  [pool |-> b.pool, entry |-> <<t, a.ret, b.ret>>]
          [] t \in {9, 10, 11} ->
                LET a == add(pool, constant[2])
                    b == add(a.pool, constant[3])
                IN  [pool |-> b.pool, entry |-> <<t, a.ret, b.ret>>]
          [] t \in {15, 17, 18} ->
                LET a == add(pool, constant[3])
                IN  [pool |-> a.pool, entry |-> <<t, constant[2], a.ret>>]

\* ---------------------------------------------------------------- InsnBlock

\* Most instructions the blocks of the model hold, all blocks together
MaxInsns == 3

\* An instruction object: what _check_instruction tells apart, and which object it is
\* (1 an instance the caller made, 0 one made by calling a MetaInstruction, 2 a clone)
Insn(kind, id) == [kind |-> kind, id |-> id]
NoInsn == Insn("none", 0)
Kinds == {"plain", "jump", "return", "athrow"}

\* isinstance(instruction, JumpInstruction) and isinstance(instruction, ReturnInstruction)
IsJump(instruction) == instruction.kind = "jump"
IsReturn(instruction) == instruction.kind = "return"

\* Instruction.__eq__ of `instruction == instructions.athrow`
EqAthrow(instruction) == instruction.kind = "athrow"

\* Instruction.__eq__ of list.remove: the instructions of the model have no operands
InsnEq(a, b) == a.kind = b.kind

\* MetaInstruction.__call__: the instance a MetaInstruction makes
Instantiate(meta) == Insn(meta.kind, 0)

\* Instruction.copy
Clone(instruction) == Insn(instruction.kind, 2)

\* What a call on a block does: the exception raised and the list afterwards
Done(instructions) == [err |-> "none", _instructions |-> instructions]
Failed(e, instructions) == [err |-> e, _instructions |-> instructions]

\* An argument: an Instruction, a MetaInstruction, or something else
Given(form, instruction) == [form |-> form, insn |-> instruction]

\* A subscript: an int, or something else
Key(type, value) == [type |-> type, value |-> value]

\* _check_instruction that lets athrow through
check_no_athrow(instruction) ==
    IF IsJump(instruction) THEN "ValueError"
    ELSE IF IsReturn(instruction) THEN "ValueError"
    ELSE "none"

\* InsnBlock._check_instruction: the exception raised, "none" when it returns
_check_instruction(instruction) ==
    IF IsJump(instruction) THEN "ValueError"
    ELSE IF IsReturn(instruction) THEN "ValueError"
    ELSE IF EqAthrow(instruction) THEN "ValueError"
    ELSE "none"

\* The first lines of append, insert and __setitem__: a MetaInstruction is called
Coerce(given) == IF given.form = "meta" THEN Instantiate(given.insn) ELSE given.insn

\* list.insert(index, x): a negative index counts from the end, and an index out of
\* range is clamped
ListInsert(l, index, x) ==
    LET i == IF index < 0 THEN index + Len(l) ELSE index
        at == IF i < 0 THEN 0 ELSE IF i > Len(l) THEN Len(l) ELSE i
    IN  SubSeq(l, 1, at) \o <<x>> \o SubSeq(l, at + 1, Len(l))

\* The position in 1..Len(l) an int subscript names, 0 when it is out of range
ListAt(l, index) ==
    LET i == IF index < 0 THEN index + Len(l) ELSE index
    IN  IF i < 0 \/ i >= Len(l) THEN 0 ELSE i + 1

\* del l[index] where index is in range
ListDel(l, at) == SubSeq(l, 1, at - 1) \o SubSeq(l, at + 1, Len(l))

\* InsnBlock.append
block_append(l, given, do_raise) ==
    LET instruction == Coerce(given)
    IN  IF given.form = "other" THEN Failed("ValueError", l)
        ELSE IF do_raise /\ _check_instruction(instruction) # "none"
        THEN Failed(_check_instruction(instruction), l)
        ELSE Done(Append(l, instruction))

\* InsnBlock.insert
block_insert(l, index, given, do_raise) ==
    LET instruction == Coerce(given)
    IN  IF given.form = "other" THEN Failed("ValueError", l)
        ELSE IF do_raise /\ _check_instruction(instruction) # "none"
        THEN Failed(_check_instruction(instruction), l)
        ELSE Done(ListInsert(l, index, instruction))

\* InsnBlock.__setitem__
block_setitem(l, key, given) ==
    LET value == Coerce(given)
    IN  IF key.type # "int" THEN Failed("TypeError", l)
        ELSE IF given.form = "other" THEN Failed("ValueError", l)
        ELSE IF _check_instruction(value) # "none" THEN Failed(_check_instruction(value), l)
        ELSE IF ListAt(l, key.value) = 0 THEN Failed("IndexError", l)
        ELSE Done([l EXCEPT ![ListAt(l, key.value)] = value])

\* InsnBlock.__delitem__ of an int; a subscript that is neither int nor slice is
\* passed over in silence
block_delitem(l, item) ==
    IF item.type # "int" THEN Done(l)
    ELSE IF ListAt(l, item.value) = 0 THEN Failed("IndexError", l)
    ELSE Done(ListDel(l, ListAt(l, item.value)))

\* InsnBlock.remove: list.remove takes out the first element equal to the argument
block_remove(l, instruction) ==
    IF \E i \in 1..Len(l) : InsnEq(l[i], instruction)
    THEN Done(ListDel(l, CHOOSE i \in 1..Len(l) :
                  InsnEq(l[i], instruction) /\ \A j \in 1..(i - 1) : ~InsnEq(l[j], instruction)))
    ELSE Failed("ValueError", l)

\* InsnBlock.pop
block_pop(l, index) ==
    IF ListAt(l, index) = 0 THEN Failed("IndexError", l)
    ELSE Done(ListDel(l, ListAt(l, index)))

\* InsnBlock.clear
block_clear(l) == Done(<<>>)

\* InsnBlock.__init__: instructions_ None leaves the list empty, as an empty iterable.
\* list names the list object _instructions is bound to, by the statement that made it
InsnBlock(label, instructions_) ==
    [label |-> label, _instructions |-> instructions_, inline_ |-> FALSE, list |-> "__init__"]

\* InsnBlock.copy that binds the list of the block copied
copy_aliased(block, label, deep) ==
    [label |-> IF label = -1 THEN block.label ELSE label,
     _instructions |-> IF deep
                       THEN [i \in 1..Len(block._instructions) |-> Clone(block._instructions[i])]
                       ELSE block._instructions,
     inline_ |-> FALSE,
     list |-> block.list]

\* InsnBlock.copy; label -1 stands for None
block_copy(block, label, deep) ==
    [label |-> IF label = -1 THEN block.label ELSE label,
     _instructions |-> IF deep
                       THEN [i \in 1..Len(block._instructions) |-> Clone(block._instructions[i])]
                       ELSE block._instructions,
     inline_ |-> FALSE,
     list |-> "copy"]

\* list == list: the same length, and each pair the same object or equal
ListEq(l, m) ==
    /\ Len(l) = Len(m)
    /\ \A i \in 1..Len(l) : l[i] = m[i] \/ InsnEq(l[i], m[i])

\* InsnBlock.__eq__ that leaves the label out
eq_unlabelled(a, b) ==
    IF a = b THEN TRUE
    ELSE ListEq(blocks[b]._instructions, blocks[a]._instructions)

\* InsnBlock.__eq__ of the block objects a and b, both of them InsnBlocks
block_eq(a, b) ==
    IF a = b THEN TRUE
    ELSE /\ blocks[b].label = blocks[a].label
         /\ ListEq(blocks[b]._instructions, blocks[a]._instructions)

\* InsnBlock.__hash__: id(self), the object that b is
block_hash(b) == b

\* The record of a call on a block
BlockCall(op, block, arg, do_raise, e) ==
    [op |-> op, block |-> block, arg |-> arg, do_raise |-> do_raise, err |-> e]

NoBlockCall == BlockCall("none", 0, Given("other", NoInsn), TRUE, "none")

\* ---------------------------------------------------------------- inputs

\* The slots an entry takes
Width(entry) == IF wide(tag(entry)) THEN 2 ELSE 1

RECURSIVE Slots(_)
Slots(entries) ==
    IF entries = <<>> THEN 0 ELSE Width(entries[1]) + Slots(Tail(entries))

\* A buffer whose count field agrees with its entries
Buffer(entries) == [count |-> 1 + Slots(entries), entries |-> entries]

NoBuffer == [count |-> 0, entries |-> <<>>]

Refs == 0..MaxRef
UTF8Payloads == {<<97>>, <<192, 128>>}

\* Every entry of every variant whose reference fields lie in Refs
Entries ==
    {<<1, p>> : p \in UTF8Payloads}
    \cup {<<t, 1>> : t \in {3, 4, 5, 6}}
    \cup {<<t, r>> : t \in {7, 8, 16, 19, 20}, r \in Refs}
    \cup {<<t, r1, r2>> : t \in {9, 10, 11, 12}, r1 \in Refs, r2 \in Refs}
    \cup {<<t, 1, r>> : t \in {15, 17, 18}, r \in Refs}

\* All inputs of one entry and of two entries
ShortPools == {<<e>> : e \in Entries} \cup {<<e1, e2>> : e1 \in Entries, e2 \in Entries}

\* The fields of an entry that are pool indices
RefFields(t) ==
    CASE t \in {7, 8, 16, 19, 20} -> {2}
      [] t \in {9, 10, 11, 12} -> {2, 3}
      [] t \in {15, 17, 18} -> {3}
      [] OTHER -> {}

\* Kits: entries whose reference fields name positions of the kit. A method-handle
\* chain with a mis-kinded sibling, and a dynamic chain with a duplicate Utf8 and
\* a wide entry.
KitRef(f) == << <<1, <<97>>>>, <<7, 1>>, <<12, 1, 1>>, <<f, 2, 3>>, <<15, 1, 4>>, <<f, 2, 1>> >>
KitDyn(d) == << <<1, <<97>>>>, <<1, <<97>>>>, <<5, 1>>, <<7, 1>>, <<12, 1, 2>>, <<d, 1, 5>> >>
Kits == {KitRef(f) : f \in {9, 10, 11}} \cup {KitDyn(d) : d \in {17, 18}}

\* The sequences without repetition of at most MaxChain positions of a kit
Arrangements(n) ==
    UNION {{s \in [1..k -> 1..n] : \A i, j \in 1..k : i # j => s[i] # s[j]} :
           k \in 0..(IF MaxChain < n THEN MaxChain ELSE n)}

\* The kit's entries in the order ord, each reference renumbered to the offset its
\* referent takes in that order, 0 when the referent was left out
Arrange(kit, ord) ==
    LET at(p) == 1 + Slots([q \in 1..(p - 1) |-> kit[ord[q]]])
        renum(k) == IF \E p \in 1..Len(ord) : ord[p] = k
                    THEN at(CHOOSE p \in 1..Len(ord) : ord[p] = k)
                    ELSE 0
    IN  [p \in 1..Len(ord) |->
            LET e == kit[ord[p]]
            IN  [i \in 1..Len(e) |-> IF i \in RefFields(tag(e)) THEN renum(e[i]) ELSE e[i]]]

ChainPools == {Arrange(kit, ord) : kit \in Kits, ord \in Arrangements(6)}

ReadPools == ShortPools \cup ChainPools
Versions == {50, 55}

\* ---------------------------------------------------------------- read

\* The record of an API call: the argument, the index given (__setitem__), the index
\* returned (add), whether add inserted, what the slot held before (__setitem__)
Call(op, arg, at, ret, new, was) ==
    [op |-> op, arg |-> arg, at |-> at, ret |-> ret, new |-> new, was |-> was]

NoCall == Call("none", None, 0, 0, FALSE, None)

\* cls(), the count read, the queue and the cursor set up
StartRead(v, entries) ==
    /\ pc' = "read"
    /\ err' = "none"
    /\ version' = v
    /\ input' = Buffer(entries)
    /\ pos' = 0
    /\ offset' = 1
    /\ uncomputed' = <<>>
    /\ stalled' = 0
    /\ _index' = 1
    /\ _forward_entries' = <<>>
    /\ _backward_entries' = <<>>
    /\ output' = NoBuffer
    /\ pristine' = FALSE
    /\ onlyAdd' = FALSE
    /\ last' = NoCall

Raise(e) ==
    /\ pc' = "raised"
    /\ err' = e

\* One iteration of `while offset < constants_count`
ReadEntry ==
    /\ pc = "read"
    /\ offset < input.count
    /\ IF pos >= Len(input.entries)
       THEN Raise("Truncated")
            /\ UNCHANGED <<version, input, pos, offset, uncomputed, stalled, poolVars,
                           output, pristine, onlyAdd, last>>
       ELSE LET entry == input.entries[pos + 1]
                t == tag(entry)
                info == constant_read(entry)
            IN  IF t \notin _constant_map
                THEN Raise("UnknownTag")
                     /\ UNCHANGED <<version, input, pos, offset, uncomputed, stalled,
                                    poolVars, output, pristine, onlyAdd, last>>
                ELSE IF VersionGt(since(t), version)
                THEN Raise("Unsupported")
                     /\ UNCHANGED <<version, input, pos, offset, uncomputed, stalled,
                                    poolVars, output, pristine, onlyAdd, last>>
                ELSE IF CutShort(entry)
                THEN Raise("Truncated")
                     /\ UNCHANGED <<version, input, pos, offset, uncomputed, stalled,
                                    poolVars, output, pristine, onlyAdd, last>>
                ELSE /\ IF IsValueTag(t)
                        THEN /\ _forward_entries' = Put(_forward_entries, offset, info)
                             /\ _backward_entries' = Put(_backward_entries, info, offset)
                             /\ UNCHANGED uncomputed
                        ELSE /\ uncomputed' = Append(uncomputed, <<offset, t, info>>)
                             /\ UNCHANGED <<_forward_entries, _backward_entries>>
                     /\ offset' = offset + (IF wide(t) THEN 2 ELSE 1)
                     /\ pos' = pos + 1
                     /\ UNCHANGED <<pc, err, version, input, stalled, _index, output,
                                    pristine, onlyAdd, last>>
    /\ UNCHANGED blockVars

\* `constant_pool._index = offset` once the first loop is left
ReadSetIndex ==
    /\ pc = "read"
    /\ ~(offset < input.count)
    /\ _index' = offset
    /\ pc' = "fixup"
    /\ UNCHANGED <<err, version, input, pos, offset, uncomputed, stalled,
                   _forward_entries, _backward_entries, output, pristine, onlyAdd, last>>
    /\ UNCHANGED blockVars

\* One iteration of `while uncomputed`
FixupStep ==
    /\ pc = "fixup"
    /\ uncomputed # <<>>
    /\ LET head == Head(uncomputed)
           value == dereference(head[2], _forward_entries, head[3])
       IN  CASE value.kind = "pending" ->
                  /\ uncomputed' = Append(Tail(uncomputed), head)
                  /\ stalled' = IF stalled < Len(uncomputed) THEN stalled + 1 ELSE stalled
                  /\ UNCHANGED <<pc, err, offset, _forward_entries, _backward_entries>>
             [] value.kind = "TypeError" ->
                  /\ Raise("TypeError")
                  /\ uncomputed' = Tail(uncomputed)
                  /\ offset' = head[1]
                  /\ UNCHANGED <<stalled, _forward_entries, _backward_entries>>
             [] value.kind = "resolved" ->
                  /\ uncomputed' = Tail(uncomputed)
                  /\ offset' = head[1]
                  /\ stalled' = 0
                  /\ _forward_entries' = Put(_forward_entries, head[1], value.value)
                  /\ _backward_entries' = Put(_backward_entries, value.value, head[1])
                  /\ UNCHANGED <<pc, err>>
    /\ UNCHANGED <<version, input, pos, _index, output, pristine, onlyAdd, last>>
    /\ UNCHANGED blockVars

\* `return constant_pool`
ReadReturn ==
    /\ pc = "fixup"
    /\ uncomputed = <<>>
    /\ pc' = "idle"
    /\ pristine' = TRUE
    /\ last' = Call("read", None, 0, 0, FALSE, None)
    /\ UNCHANGED <<err, version, input, pos, offset, uncomputed, stalled, poolVars, output,
                   onlyAdd>>
    /\ UNCHANGED blockVars

\* ---------------------------------------------------------------- write

\* start = buffer.tell(); the two placeholder bytes; offset = 1. The record keeps
\* _index as the call finds it (at) and, when the call before was a write that
\* finished (new), what that write emitted (was)
WriteStart ==
    /\ pc = "idle"
    /\ pc' = "write"
    /\ err' = "none"
    /\ offset' = 1
    /\ output' = NoBuffer
    /\ last' = Call("write", None, _index, 0, last.op = "written",
                     IF last.op = "written" THEN output ELSE None)
    /\ UNCHANGED <<readVars, poolVars, pristine, onlyAdd>>
    /\ UNCHANGED blockVars

\* One iteration of `while offset < self._index`
WriteEntry ==
    /\ pc = "write"
    /\ offset < _index
    /\ IF offset \notin DOMAIN _forward_entries
       THEN /\ pc' = "idle"
            /\ err' = "KeyError"
            /\ UNCHANGED <<offset, poolVars, output>>
       ELSE LET constant == _forward_entries[offset]
                w == constant_write(Pool, constant)
            IN  /\ output' = [output EXCEPT !.entries = Append(@, w.entry)]
                /\ _index' = w.pool.index
                /\ _forward_entries' = w.pool.forward
                /\ _backward_entries' = w.pool.backward
                /\ offset' = offset + (IF wide(tag(constant)) THEN 2 ELSE 1)
                /\ UNCHANGED <<pc, err>>
    /\ UNCHANGED <<readVars, pristine, onlyAdd, last>>
    /\ UNCHANGED blockVars

\* The placeholder overwritten with pack_H(offset)
WriteDone ==
    /\ pc = "write"
    /\ ~(offset < _index)
    /\ output' = [output EXCEPT !.count = offset]
    /\ pc' = "idle"
    /\ last' = Call("written", None, last.at, offset, last.new, last.was)
    /\ UNCHANGED <<err, readVars, offset, poolVars, pristine, onlyAdd>>
    /\ UNCHANGED blockVars

\* ---------------------------------------------------------------- ConstantPool.read, then write

ReadInit == \E v \in Versions, entries \in ReadPools :
    /\ pc = "read"
    /\ err = "none"
    /\ version = v
    /\ input = Buffer(entries)
    /\ pos = 0
    /\ offset = 1
    /\ uncomputed = <<>>
    /\ stalled = 0
    /\ _index = 1
    /\ _forward_entries = <<>>
    /\ _backward_entries = <<>>
    /\ output = NoBuffer
    /\ pristine = FALSE
    /\ onlyAdd = FALSE
    /\ last = NoCall
    /\ blocks = <<>>
    /\ bcall = NoBlockCall

\* A pool is read and, unless the read raised, written back once
ReadNext ==
    \/ ReadEntry
    \/ ReadSetIndex
    \/ FixupStep
    \/ ReadReturn
    \/ (last.op = "read" /\ WriteStart)
    \/ WriteEntry
    \/ WriteDone

ReadSpec == ReadInit /\ [][ReadNext]_vars

\* The program is one thread that runs each loop until its condition fails
FairReadSpec == ReadSpec /\ WF_vars(ReadNext)

\* ---------------------------------------------------------------- read, as a function

\* The first loop of read over the entries left: [ok, forward, queue], ok FALSE when
\* an entry raised
RECURSIVE ReadLoop(_, _, _, _, _)
ReadLoop(v, entries, at, forward, queue) ==
    IF entries = <<>> THEN [ok |-> TRUE, forward |-> forward, queue |-> queue]
    ELSE LET entry == Head(entries)
             t == tag(entry)
             next == at + (IF wide(t) THEN 2 ELSE 1)
         IN  IF t \notin _constant_map \/ VersionGt(since(t), v) \/ CutShort(entry)
             THEN [ok |-> FALSE, forward |-> forward, queue |-> queue]
             ELSE IF IsValueTag(t)
             THEN ReadLoop(v, Tail(entries), next,
                           Put(forward, at, constant_read(entry)), queue)
             ELSE ReadLoop(v, Tail(entries), next, forward,
                           Append(queue, <<at, t, constant_read(entry)>>))

\* `while uncomputed`: [ok, forward], ok FALSE when a dereference raised or when a
\* whole pass resolved nothing, after which the loop never ends
RECURSIVE FixupLoop(_, _, _)
FixupLoop(forward, queue, idle) ==
    IF queue = <<>> THEN [ok |-> TRUE, forward |-> forward]
    ELSE IF idle >= Len(queue) THEN [ok |-> FALSE, forward |-> forward]
    ELSE LET head == Head(queue)
             value == dereference(head[2], forward, head[3])
         IN  CASE value.kind = "pending" ->
                    FixupLoop(forward, Append(Tail(queue), head), idle + 1)
               [] value.kind = "TypeError" -> [ok |-> FALSE, forward |-> forward]
               [] value.kind = "resolved" ->
                    FixupLoop(Put(forward, head[1], value.value), Tail(queue), 0)

\* ConstantPool.read of a buffer whose count agrees with its entries: whether a pool
\* is returned, and its _forward_entries
read(v, entries) ==
    LET first == ReadLoop(v, entries, 1, <<>>, <<>>)
    IN  IF first.ok THEN FixupLoop(first.forward, first.queue, 0)
        ELSE [ok |-> FALSE, forward |-> first.forward]

\* Longest input whose every byte order is compared
MaxPerm == 4

PermPools == {p \in ChainPools : Len(p) <= MaxPerm}

PermInit == \E entries \in PermPools :
    /\ pc = "read"
    /\ err = "none"
    /\ version = 55
    /\ input = Buffer(entries)
    /\ pos = 0
    /\ offset = 1
    /\ uncomputed = <<>>
    /\ stalled = 0
    /\ _index = 1
    /\ _forward_entries = <<>>
    /\ _backward_entries = <<>>
    /\ output = NoBuffer
    /\ pristine = FALSE
    /\ onlyAdd = FALSE
    /\ last = NoCall
    /\ blocks = <<>>
    /\ bcall = NoBlockCall

PermSpec == PermInit /\ [][ReadNext]_vars

\* ---------------------------------------------------------------- read, tag by tag

\* The tag bytes probed: every known tag, the gaps between them, and the ends
TagBytes == 0..21 \cup {255}

\* The versions probed: each since, its neighbours, and one below the lowest
TagVersions == 44..56

\* An entry of tag t whose references name slot 1; of an unknown tag, the tag alone
Probe(t) ==
    CASE t = 1 -> <<1, <<97>>>>
      [] t \in {3, 4, 5, 6, 7, 8, 16, 19, 20} -> <<t, 1>>
      [] t \in {9, 10, 11, 12, 15, 17, 18} -> <<t, 1, 1>>
      [] OTHER -> <<t>>

\* The probed entry after a Utf8, or before it
TagPools == {<< <<1, <<97>>>>, Probe(t) >> : t \in TagBytes}
            \cup {<< Probe(t), <<1, <<97>>>> >> : t \in TagBytes}

TagInit == \E v \in TagVersions, entries \in TagPools :
    /\ pc = "read"
    /\ err = "none"
    /\ version = v
    /\ input = [count |-> 3, entries |-> entries]
    /\ pos = 0
    /\ offset = 1
    /\ uncomputed = <<>>
    /\ stalled = 0
    /\ _index = 1
    /\ _forward_entries = <<>>
    /\ _backward_entries = <<>>
    /\ output = NoBuffer
    /\ pristine = FALSE
    /\ onlyAdd = FALSE
    /\ last = NoCall
    /\ blocks = <<>>
    /\ bcall = NoBlockCall

TagSpec == TagInit /\ [][ReadNext]_vars

\* ---------------------------------------------------------------- read of a stream that ends early

\* The entries before the one the stream ends in
CutPrefixes == {<<>>, << <<1, <<97>>>> >>, << <<5, 1>> >>, << <<7, 1>> >>, << <<7, 2>> >>,
                << <<7, 3>> >>, << <<1, <<97>>>>, <<8, 1>> >>}

\* The entry the stream ends in: nothing of it, its tag alone, or a Utf8 whose
\* payload is shorter than the length declared (the third field)
CutEntries == {<<>>} \cup {<<t>> : t \in _constant_map}
              \cup {<<1, <<>>, 1>>, <<1, <<97>>, 2>>, <<1, <<97, 192>>, 3>>}

\* The buffer: the count declares the entry the stream ends in
CutBuffer(prefix, cut) ==
    [count |-> 1 + Slots(prefix) + (IF cut = <<>> THEN 1 ELSE Width(cut)),
     entries |-> IF cut = <<>> THEN prefix ELSE Append(prefix, cut)]

TruncInit == \E prefix \in CutPrefixes, cut \in CutEntries :
    /\ pc = "read"
    /\ err = "none"
    /\ version = 55
    /\ input = CutBuffer(prefix, cut)
    /\ pos = 0
    /\ offset = 1
    /\ uncomputed = <<>>
    /\ stalled = 0
    /\ _index = 1
    /\ _forward_entries = <<>>
    /\ _backward_entries = <<>>
    /\ output = NoBuffer
    /\ pristine = FALSE
    /\ onlyAdd = FALSE
    /\ last = NoCall
    /\ blocks = <<>>
    /\ bcall = NoBlockCall

TruncSpec == TruncInit /\ [][ReadNext]_vars

\* ---------------------------------------------------------------- the pool API

A == <<97>>

\* The arguments handed to add
Arguments ==
    {Str(A), UTF8(A), Long(1), Class(A), FieldRef(Class(A), NameAndType(A, A))}
    \cup {Index(n) : n \in 0..MaxIndex}

\* The items handed to __setitem__
Items == {Str(A), UTF8(A), Long(1), Class(A)} \cup {Index(n) : n \in {0, MaxSet}}

\* The buffers handed to read from the API: the inputs of at most two entries
\* arranged from the dynamic kit
ApiPools == {p \in {Arrange(KitDyn(17), ord) : ord \in Arrangements(6)} : Len(p) <= 2}

\* The locals of a finished read or write are gone when the next call begins
ForgetLocals ==
    /\ input' = NoBuffer
    /\ pos' = 0
    /\ offset' = 1
    /\ uncomputed' = <<>>
    /\ stalled' = 0
    /\ output' = NoBuffer

SetPool(pool) ==
    /\ _index' = pool.index
    /\ _forward_entries' = pool.forward
    /\ _backward_entries' = pool.backward

\* ConstantPool.__setitem__: the pool afterwards
setitem(pool, index, item) ==
    IF tag(item) = 0 \/ tag(item) = -1 THEN pool
    ELSE [forward |-> Put(pool.forward, index, item),
          backward |-> Put(pool.backward, item, index),
          index |-> IF index >= pool.index
                    THEN index + 1 + (IF wide(tag(item)) THEN 1 ELSE 0)
                    ELSE pool.index]

\* ConstantPool.clear that leaves _index where it was
clear_index_kept(pool) == [EmptyPool EXCEPT !.index = pool.index]

\* ConstantPool.clear
clear(pool) == EmptyPool

\* What a lookup gives back: the value returned, or the exception raised
Returns(value) == [err |-> "none", value |-> value]
Raises(e) == [err |-> e, value |-> None]

\* ConstantPool.__getitem__ of an int
getitem(pool, item) ==
    LET constant == Get(pool.forward, item)
    IN  IF constant # None THEN Returns(constant) ELSE Returns(Index(item))

\* get that returns the Index whether or not do_raise is set
get_unraised(pool, index, default, do_raise) ==
    LET constant == Get(pool.forward, index)
    IN  IF constant # None THEN Returns(constant)
        ELSE IF default # None THEN Returns(default)
        ELSE Returns(Index(index))

\* ConstantPool.get
get(pool, index, default, do_raise) ==
    LET constant == Get(pool.forward, index)
    IN  IF constant # None THEN Returns(constant)
        ELSE IF default # None THEN Returns(default)
        ELSE IF do_raise THEN Raises("IndexError")
        ELSE Returns(Index(index))

\* get_utf8 that hands back the payload of whatever constant the slot holds
get_utf8_any(pool, index, default) ==
    LET constant == Get(pool.forward, index)
    IN  IF constant = None
        THEN IF default # None THEN Returns(default) ELSE Raises("ValueError")
        ELSE Returns(Str(constant[2]))

\* ConstantPool.get_utf8: the str returned is written Str(value), as a str default is
get_utf8(pool, index, default) ==
    LET constant == Get(pool.forward, index)
    IN  IF constant = None
        THEN IF default # None THEN Returns(default) ELSE Raises("ValueError")
        ELSE IF tag(constant) # 1
        THEN IF default # None THEN Returns(default) ELSE Raises("TypeError")
        ELSE Returns(Str(constant[2]))

\* read is a classmethod: the pool it builds owes nothing to the pool at hand, so
\* it is explored from the constructed pool only
Read == \E v \in Versions, entries \in ApiPools :
    /\ pc = "idle"
    /\ last = NoCall
    /\ StartRead(v, entries)
    /\ UNCHANGED blockVars

Add == \E constant \in Arguments :
    /\ pc = "idle"
    /\ _index <= MaxIndex
    /\ LET r == add(Pool, constant)
       IN  /\ SetPool(r.pool)
           /\ last' = Call("add", constant, 0, r.ret, r.pool # Pool, None)
           /\ pristine' = (pristine /\ r.pool = Pool)
    /\ err' = "none"
    /\ ForgetLocals
    /\ UNCHANGED <<pc, version, onlyAdd>>
    /\ UNCHANGED blockVars

SetItem == \E index \in 0..MaxSet, item \in Items :
    /\ pc = "idle"
    /\ _index <= MaxSet
    /\ LET after == setitem(Pool, index, item)
       IN  /\ SetPool(after)
           /\ last' = Call("setitem", item, index, 0, FALSE, Get(_forward_entries, index))
           /\ pristine' = (pristine /\ after = Pool)
           /\ onlyAdd' = (onlyAdd /\ after = Pool)
    /\ err' = "none"
    /\ ForgetLocals
    /\ UNCHANGED <<pc, version>>
    /\ UNCHANGED blockVars

Clear ==
    /\ pc = "idle"
    /\ SetPool(clear(Pool))
    /\ last' = Call("clear", None, 0, 0, FALSE, None)
    /\ pristine' = FALSE
    /\ onlyAdd' = TRUE
    /\ err' = "none"
    /\ ForgetLocals
    /\ UNCHANGED <<pc, version>>
    /\ UNCHANGED blockVars

\* The indices looked up: 0, the slots add fills, and one beyond them
LookupIndices == 0..(MaxIndex + 1)

\* A lookup leaves the pool alone; its record keeps the index in at, the default
\* in arg, do_raise in new and the value returned in was
Looked(op, index, default, do_raise, result) ==
    /\ pc = "idle"
    /\ last' = Call(op, default, index, 0, do_raise, result.value)
    /\ err' = result.err
    /\ ForgetLocals
    /\ UNCHANGED <<pc, version, poolVars, pristine, onlyAdd>>
    /\ UNCHANGED blockVars

\* pool[index]
GetItem == \E index \in LookupIndices :
    Looked("getitem", index, None, FALSE, getitem(Pool, index))

\* pool.get(index, default, do_raise)
GetConstant == \E index \in LookupIndices, default \in {None, Long(1)}, do_raise \in BOOLEAN :
    Looked("get", index, default, do_raise, get(Pool, index, default, do_raise))

\* pool.get_utf8(index, default)
GetUtf8 == \E index \in LookupIndices, default \in {None, Str(<<>>)} :
    Looked("get_utf8", index, default, FALSE, get_utf8(Pool, index, default))

\* ConstantPool(): the state after construction
Init ==
    /\ pc = "idle"
    /\ err = "none"
    /\ version = 55
    /\ input = NoBuffer
    /\ pos = 0
    /\ offset = 1
    /\ uncomputed = <<>>
    /\ stalled = 0
    /\ _index = 1
    /\ _forward_entries = <<>>
    /\ _backward_entries = <<>>
    /\ output = NoBuffer
    /\ pristine = FALSE
    /\ onlyAdd = TRUE
    /\ last = NoCall
    /\ blocks = <<>>
    /\ bcall = NoBlockCall

Next ==
    \/ Read
    \/ ReadEntry
    \/ ReadSetIndex
    \/ FixupStep
    \/ ReadReturn
    \/ Add
    \/ SetItem
    \/ Clear
    \/ WriteStart
    \/ WriteEntry
    \/ WriteDone

Spec == Init /\ [][Next]_vars

\* write is one thread that runs its loop until the condition fails
FairSpec == Spec /\ WF_vars(WriteEntry) /\ WF_vars(WriteDone)

\* The lookups change no pool: Next reaches every pool without them, and the calls
\* that follow a lookup are those that follow from the pool it was made on. They
\* are explored as the last call, on the pools that add, __setitem__ and clear build
Looking == last.op \in {"getitem", "get", "get_utf8"}

LookupNext ==
    \/ (~Looking /\ Add)
    \/ (~Looking /\ SetItem)
    \/ (~Looking /\ Clear)
    \/ (~Looking /\ GetItem)
    \/ (~Looking /\ GetConstant)
    \/ (~Looking /\ GetUtf8)

LookupSpec == Init /\ [][LookupNext]_vars


\* ---------------------------------------------------------------- the InsnBlock API

\* The objects: a block that is constructed, and the block copy makes of it
Original == 1
Copied == 2

\* The instructions handed to the calls
Givens == {Given("instance", Insn(k, 1)) : k \in Kinds}
          \cup {Given("meta", Insn("plain", 1)), Given("other", NoInsn)}

\* The int subscripts handed to the calls
Indices == (-1)..MaxInsns

\* The subscripts handed to __setitem__ and __delitem__
Subscripts == {Key("int", i) : i \in Indices} \cup {Key("str", 0)}

\* The lists handed to the constructor
Initial == {<<>>, <<Insn("plain", 1)>>, <<Insn("jump", 1)>>,
            <<Insn("plain", 1), Insn("return", 1)>>}

RECURSIVE Held(_)
\* The instructions all blocks hold
Held(ids) ==
    IF ids = {} THEN 0
    ELSE LET b == CHOOSE b \in ids : TRUE
         IN  Len(blocks[b]._instructions) + Held(ids \ {b})

\* A call on block b that leaves its list as result._instructions, in every block
\* bound to that list
Called(op, b, arg, do_raise, result) ==
    /\ blocks' = [c \in DOMAIN blocks |->
                    IF blocks[c].list = blocks[b].list
                    THEN [blocks[c] EXCEPT !._instructions = result._instructions]
                    ELSE blocks[c]]
    /\ bcall' = BlockCall(op, b, arg, do_raise, result.err)
    /\ UNCHANGED constantVars

\* InsnBlock(label, instructions_)
BlockNew == \E instructions_ \in Initial :
    /\ Original \notin DOMAIN blocks
    /\ blocks' = (Original :> InsnBlock(7, instructions_))
    /\ bcall' = BlockCall("new", Original, Given("other", NoInsn), TRUE, "none")
    /\ UNCHANGED constantVars

\* block.append(instruction, do_raise)
AppendCall(b, given, do_raise) ==
    Called("append", b, given, do_raise,
           block_append(blocks[b]._instructions, given, do_raise))

BlockAppend == \E b \in DOMAIN blocks, given \in Givens, do_raise \in BOOLEAN :
    /\ Held(DOMAIN blocks) < MaxInsns
    /\ AppendCall(b, given, do_raise)

\* block.insert(index, instruction, do_raise)
InsertCall(b, index, given, do_raise) ==
    Called("insert", b, given, do_raise,
           block_insert(blocks[b]._instructions, index, given, do_raise))

BlockInsert == \E b \in DOMAIN blocks, given \in Givens, do_raise \in BOOLEAN,
                  index \in Indices :
    /\ Held(DOMAIN blocks) < MaxInsns
    /\ InsertCall(b, index, given, do_raise)

BlockSetItem == \E b \in DOMAIN blocks, given \in Givens, key \in Subscripts :
    Called("setitem", b, given, TRUE, block_setitem(blocks[b]._instructions, key, given))

BlockDelItem == \E b \in DOMAIN blocks, item \in Subscripts :
    Called("delitem", b, Given("other", NoInsn), TRUE,
           block_delitem(blocks[b]._instructions, item))

BlockRemove == \E b \in DOMAIN blocks, k \in Kinds :
    Called("remove", b, Given("instance", Insn(k, 1)), TRUE,
           block_remove(blocks[b]._instructions, Insn(k, 1)))

BlockPop == \E b \in DOMAIN blocks, index \in Indices :
    Called("pop", b, Given("other", NoInsn), TRUE, block_pop(blocks[b]._instructions, index))

BlockClear == \E b \in DOMAIN blocks :
    Called("clear", b, Given("other", NoInsn), TRUE, block_clear(blocks[b]._instructions))

\* copy(label, deep); do_raise of the record keeps deep
BlockCopyCall(label, deep) ==
    /\ blocks' = blocks @@ (Copied :> block_copy(blocks[Original], label, deep))
    /\ bcall' = BlockCall("copy", Original, Given("other", NoInsn), deep, "none")
    /\ UNCHANGED constantVars

BlockCopy == \E label \in {-1, 0}, deep \in BOOLEAN :
    /\ Original \in DOMAIN blocks
    /\ Copied \notin DOMAIN blocks
    /\ Held(DOMAIN blocks) + Len(blocks[Original]._instructions) <= MaxInsns
    /\ BlockCopyCall(label, deep)

\* The calls on the one block constructed
BlockNext ==
    \/ BlockNew
    \/ BlockAppend
    \/ BlockInsert
    \/ BlockSetItem
    \/ BlockDelItem
    \/ BlockRemove
    \/ BlockPop
    \/ BlockClear

\* No pool call is made: blocks and pools share no state
BlockSpec == Init /\ [][BlockNext]_vars

\* The calls in which do_raise is left at its default
StrictAppend == \E b \in DOMAIN blocks, given \in Givens :
    /\ Held(DOMAIN blocks) < MaxInsns
    /\ AppendCall(b, given, TRUE)

StrictInsert == \E b \in DOMAIN blocks, given \in Givens, index \in Indices :
    /\ Held(DOMAIN blocks) < MaxInsns
    /\ InsertCall(b, index, given, TRUE)

StrictNext ==
    \/ BlockNew
    \/ StrictAppend
    \/ StrictInsert
    \/ BlockSetItem
    \/ BlockDelItem
    \/ BlockRemove
    \/ BlockPop
    \/ BlockClear

StrictSpec == Init /\ [][StrictNext]_vars

\* A block, the copy made of it, and the calls that put an instruction in either
\* or take one out
CopyNext ==
    \/ BlockNew
    \/ BlockCopy
    \/ StrictAppend
    \/ BlockSetItem
    \/ BlockPop
    \/ BlockClear

CopySpec == Init /\ [][CopyNext]_vars


\* InsnReturnBlock and InsnRethrowBlock: classes that add __repr__ alone to what they
\* inherit. ReturnBlock and RethrowBlock give the label and hand no instructions to
\* InsnBlock.__init__
TerminalLabels == {-2, -3}
TerminalBlock(label) == InsnBlock(label, <<>>)

\* InsnReturnBlock() and InsnRethrowBlock()
TerminalNew == \E label \in TerminalLabels :
    /\ Original \notin DOMAIN blocks
    /\ blocks' = (Original :> TerminalBlock(label))
    /\ bcall' = BlockCall("new", Original, Given("other", NoInsn), TRUE, "none")
    /\ UNCHANGED constantVars

\* The calls a terminal block inherits from InsnBlock
TerminalNext ==
    \/ TerminalNew
    \/ BlockAppend
    \/ BlockInsert
    \/ BlockSetItem
    \/ BlockDelItem
    \/ BlockRemove
    \/ BlockPop
    \/ BlockClear

TerminalSpec == Init /\ [][TerminalNext]_vars


\* ---------------------------------------------------------------- UTF8.read and UTF8.write

\* Longest string, in code points, and most pieces in a payload read from a file
MaxLen == 2
MaxPieces == 2

\* Code points at the ends of the ranges UTF-8 encodes in one to four bytes, none of
\* them a surrogate
CodePoints == {0, 97, 128, 2047, 2048, 55295, 57344, 65535, 65536, 1114111}

RECURSIVE SeqsUpTo(_, _)
\* The sequences of at most n elements of S
SeqsUpTo(S, n) ==
    IF n = 0 THEN {<<>>}
    ELSE LET shorter == SeqsUpTo(S, n - 1)
         IN  shorter \cup {Append(q, x) : q \in shorter, x \in S}

Strings == SeqsUpTo(CodePoints, MaxLen)

\* Bytes a Utf8 entry of a file may hold: 'a', U+0000 as C0 80, a 00 byte, U+0080,
\* U+20AC, U+10000 in four bytes, U+10000 as a surrogate pair of three bytes each,
\* one surrogate, and bytes that are no UTF-8: FF, a continuation byte, a lead byte
Pieces == {<<97>>, <<192, 128>>, <<0>>, <<194, 128>>, <<226, 130, 172>>,
           <<240, 144, 128, 128>>, <<237, 160, 128, 237, 176, 128>>, <<237, 160, 128>>,
           <<255>>, <<128>>, <<195>>}

RECURSIVE Flatten(_)
Flatten(pieces) == IF pieces = <<>> THEN <<>> ELSE Head(pieces) \o Flatten(Tail(pieces))

FilePayloads == {Flatten(q) : q \in SeqsUpTo(Pieces, MaxPieces)}

\* The record of the calls: arg what was given first (a constant, or the bytes of a
\* file), ret the constant now held
Utf8Call(op, arg, constant) == Call(op, arg, 0, constant, FALSE, None)

\* UTF8(value)
Utf8Make == \E value \in Strings :
    /\ pc = "utf8"
    /\ pc' = "made"
    /\ last' = Utf8Call("UTF8", UTF8(value), UTF8(value))
    /\ UNCHANGED <<input, output>>

\* A Utf8 entry of a class file, after its tag: length prefix and payload
Utf8File == \E payload \in FilePayloads :
    /\ pc = "utf8"
    /\ pc' = "file"
    /\ input' = pack_H(Len(payload)) \o payload
    /\ last' = Utf8Call("file", payload, None)
    /\ UNCHANGED output

\* constant.write(class_file, buffer)
Utf8Write ==
    /\ pc \in {"made", "read"}
    /\ pc' = (IF pc = "made" THEN "written" ELSE "rewritten")
    /\ output' = UTF8_emit(last.ret)
    /\ last' = [last EXCEPT !.op = "write"]
    /\ UNCHANGED input

\* UTF8.read(buffer): of the file, or of what was written
Utf8Read ==
    /\ pc \in {"file", "written"}
    /\ pc' = (IF pc = "file" THEN "read" ELSE "reread")
    /\ last' = [last EXCEPT !.op = "read",
                            !.ret = UTF8_parse(IF pc = "file" THEN input ELSE output)]
    /\ UNCHANGED <<input, output>>

Utf8Frame ==
    UNCHANGED <<err, version, pos, offset, uncomputed, stalled, _index, _forward_entries,
                _backward_entries, pristine, onlyAdd, blocks, bcall>>

Utf8Init ==
    /\ pc = "utf8"
    /\ err = "none"
    /\ version = 55
    /\ input = <<>>
    /\ pos = 0
    /\ offset = 1
    /\ uncomputed = <<>>
    /\ stalled = 0
    /\ _index = 1
    /\ _forward_entries = <<>>
    /\ _backward_entries = <<>>
    /\ output = <<>>
    /\ pristine = FALSE
    /\ onlyAdd = FALSE
    /\ last = NoCall
    /\ blocks = <<>>
    /\ bcall = NoBlockCall

Utf8Next ==
    \/ Utf8Make /\ Utf8Frame
    \/ Utf8File /\ Utf8Frame
    \/ Utf8Write /\ Utf8Frame
    \/ Utf8Read /\ Utf8Frame

Utf8Spec == Utf8Init /\ [][Utf8Next]_vars


\* ---------------------------------------------------------------- properties

\* The offset at which the p-th entry of a buffer is read
OffsetOf(entries, p) == 1 + Slots(SubSeq(entries, 1, p - 1))

\* The entry read at an offset, None when no entry starts there
EntryAt(entries, o) ==
    IF \E p \in 1..Len(entries) : OffsetOf(entries, p) = o
    THEN entries[CHOOSE p \in 1..Len(entries) : OffsetOf(entries, p) = o]
    ELSE None

\* The kinds the format declares for reference field f of a variant
DeclaredKinds(t, f) ==
    CASE t \in {7, 8, 16, 19, 20} -> {1}
      [] t = 12 -> {1}
      [] t \in {9, 10, 11} -> IF f = 2 THEN {7} ELSE {12}
      [] t = 15 -> {9, 10, 11}
      [] t \in {17, 18} -> {12}
      [] OTHER -> {}

\* Every reference of the buffer names a slot where an entry of the declared kind starts
WellKinded(entries) ==
    \A p \in 1..Len(entries) : \A f \in RefFields(tag(entries[p])) :
        LET target == EntryAt(entries, entries[p][f])
        IN  target # None /\ tag(target) \in DeclaredKinds(tag(entries[p]), f)

\* read has returned its pool and nothing was called since
Returned == pc = "idle" /\ last.op = "read"

\* The p-th entry of the input is in the pool at the offset it was read at: the
\* variant it was read as, built from what its reference fields name
Installed(p) ==
    LET e == input.entries[p]
        o == OffsetOf(input.entries, p)
        c == Get(_forward_entries, o)
    IN  /\ c # None
        /\ tag(c) = tag(e)
        /\ IsValueTag(tag(e)) => c = constant_read(e)
        /\ \A f \in RefFields(tag(e)) :
              LET referent == Get(_forward_entries, e[f])
              IN  /\ referent # None
                  /\ IF tag(referent) = 1 THEN c[f] = referent[2] ELSE c[f] = referent

\* The argument of add as the constant it stands for
Coerced(constant) == IF tag(constant) = 0 THEN UTF8(constant[2]) ELSE constant

\* A ConstantInfo other than Index
IsReal(constant) == constant # None /\ tag(constant) > 0

\* C1: on a pool that read returned and nothing mutated, write emits the buffer
\* read: the same count and the same entries with the same reference indices.
RoundTrip == (last.op = "written" /\ pristine) => output = input

\* C2: once a full pass over the work queue has resolved nothing, read has failed
\* with the unresolvable-references error instead of going round again.
ReadFailsWhenStuck ==
    (pc \in {"fixup", "raised"} /\ uncomputed # <<>> /\ stalled >= Len(uncomputed))
        => (pc = "raised" /\ err = "UnresolvableReferences")

\* C3: a pool whose references all name occupied slots of the declared kind leaves
\* the fix-up loop with the pool returned, and a returned pool has an empty work
\* queue and every entry read installed at the offset it was read at.
ReadResolves ==
    /\ []((pc = "fixup" /\ WellKinded(input.entries)) => <>Returned)
    /\ [](Returned => (uncomputed = <<>> /\ \A p \in 1..Len(input.entries) : Installed(p)))

\* A method handle read before its field reference, itself read before its class,
\* itself read before its Utf8, all installed by the returned pool.
ForwardChainResolved ==
    /\ Returned
    /\ \E h, r, c \in 1..Len(input.entries) :
          /\ tag(input.entries[h]) = 15 /\ tag(input.entries[r]) \in {9, 10, 11}
          /\ tag(input.entries[c]) = 7
          /\ h < r /\ r < c
          /\ input.entries[h][3] = OffsetOf(input.entries, r)
          /\ input.entries[r][2] = OffsetOf(input.entries, c)
          /\ input.entries[c][2] > OffsetOf(input.entries, c)
          /\ Installed(h) /\ Installed(r) /\ Installed(c)

\* C4: an add of a constant equal to the one the previous add was given returns
\* the same index and changes neither map, nor _index, nor the length.
AddDeduplicates ==
    [][(pc = "idle" /\ last.op = "add" /\ last'.op = "add"
           /\ ConstEq(Coerced(last'.arg), Coerced(last.arg)))
        => (/\ last'.ret = last.ret
            /\ UNCHANGED poolVars
            /\ Cardinality(DOMAIN _forward_entries') = Cardinality(DOMAIN _forward_entries))]_vars

\* add("a") answered add(UTF8("a")) with the index it already had, the pool's
\* length staying 1.
AddedTwice ==
    /\ pc = "idle" /\ last.op = "add" /\ ~last.new
    /\ last.arg = Str(A) /\ last.ret = 1
    /\ _forward_entries = (1 :> UTF8(A))

\* C5 as stated: no two distinct occupied indices hold equal constants, in any pool
\* reachable through read, add, __setitem__ and clear.
NoEqualSlots ==
    pc = "idle" =>
        \A i, j \in DOMAIN _forward_entries :
            i # j => ~ConstEq(_forward_entries[i], _forward_entries[j])

\* C5 amended: no two distinct occupied indices hold equal constants in a pool built
\* from the empty pool (the constructor's or clear's) by add, write's adds included.
NoEqualSlotsByAdd ==
    onlyAdd =>
        \A i, j \in DOMAIN _forward_entries :
            i # j => ~ConstEq(_forward_entries[i], _forward_entries[j])

\* Two constants added, and a third add answered with an index already handed out.
AddReusedSlot ==
    /\ onlyAdd /\ pc = "idle" /\ last.op = "add" /\ ~last.new
    /\ IsReal(Coerced(last.arg))
    /\ Cardinality(DOMAIN _forward_entries) >= 2

\* C6: right after add inserted a constant at index i, _index is i + 2 with index
\* i + 1 unoccupied when the constant is a Long or Double, and i + 1 otherwise.
WideStride ==
    (pc = "idle" /\ last.op = "add" /\ last.new) =>
        IF wide(tag(Coerced(last.arg)))
        THEN _index = last.ret + 2 /\ (last.ret + 1) \notin DOMAIN _forward_entries
        ELSE _index = last.ret + 1

\* A Long inserted by add at an index above 1.
LongAdded ==
    /\ pc = "idle" /\ last.op = "add" /\ last.new
    /\ last.arg = Long(1) /\ last.ret > 1
    /\ _forward_entries[last.ret] = Long(1)

\* C7: __setitem__ of a real constant on an occupied slot fails with the
\* slot-occupied error and leaves the slot bound to what it held.
SetItemRejectsOccupied ==
    (pc = "idle" /\ last.op = "setitem" /\ IsReal(last.arg) /\ last.was # None)
        => (err = "SlotOccupied" /\ _forward_entries[last.at] = last.was)

\* C8: once slot i, which held c1, holds a different constant, c1 no longer maps
\* to i: it is not found at i by membership, lookup or add.
ReplacedIsDetached ==
    (pc = "idle" /\ last.op = "setitem" /\ IsReal(last.arg)
        /\ last.was # None /\ ~ConstEq(last.was, last.arg))
        => ~(last.was \in DOMAIN _backward_entries
             /\ _backward_entries[last.was] = last.at)

\* C9: index 0 holds no constant and no constant maps to index 0.
IndexZeroReserved ==
    /\ 0 \notin DOMAIN _forward_entries
    /\ \A c \in DOMAIN _backward_entries : _backward_entries[c] # 0

\* The reference fields of a queued entry whose slot holds a constant of a kind
\* other than the declared one
Mismatched(t, info, lookups) ==
    {f \in RefFields(t) :
        /\ Get(lookups, info[f - 1]) # None
        /\ tag(Get(lookups, info[f - 1])) \notin DeclaredKinds(t, f)}

\* The fix-up step that dereferences the head of the queue fails with the
\* kind-mismatch error
RaisesKindMismatch == pc' = "raised" /\ err' = "TypeError"

\* C10 as stated: whenever a slot referenced by the entry being dereferenced holds
\* a constant of a kind other than the declared one, read fails with the
\* kind-mismatch error, whatever the entry's other referent.
KindEnforced ==
    [][(pc = "fixup" /\ uncomputed # <<>>
           /\ Mismatched(Head(uncomputed)[2], Head(uncomputed)[3], _forward_entries) # {})
        => RaisesKindMismatch]_vars

\* The mismatch that FieldRef, MethodRef and InterfaceMethodRef do not get to: at
\* the name-and-type position only, while the class slot is empty
Unexamined(t, info, lookups) ==
    /\ t \in {9, 10, 11}
    /\ Get(lookups, info[1]) = None
    /\ Mismatched(t, info, lookups) = {3}

\* C10 amended: the same, except that FieldRef, MethodRef and InterfaceMethodRef
\* examine the class first and stay pending while its slot is empty; and read
\* returns no pool for an input with a reference to a slot of another kind.
KindEnforcedClassFirst ==
    /\ [][(pc = "fixup" /\ uncomputed # <<>>
              /\ Mismatched(Head(uncomputed)[2], Head(uncomputed)[3], _forward_entries) # {}
              /\ ~Unexamined(Head(uncomputed)[2], Head(uncomputed)[3], _forward_entries))
           => RaisesKindMismatch]_vars
    /\ [](Returned => WellKinded(input.entries))

\* A reference entry whose class slot holds a Class was refused for the Utf8 or
\* other constant its name-and-type field names.
NameAndTypeRefused ==
    /\ pc = "raised" /\ err = "TypeError"
    /\ \E p \in 1..Len(input.entries) :
          LET e == input.entries[p]
          IN  /\ OffsetOf(input.entries, p) = offset
              /\ tag(e) \in {9, 10, 11}
              /\ isinstance(Get(_forward_entries, e[2]), {7})
              /\ Get(_forward_entries, e[3]) # None
              /\ ~isinstance(Get(_forward_entries, e[3]), {12})

\* The version each variant was introduced in, by tag
IntroducedIn(t) ==
    CASE t \in {19, 20} -> 53
      [] t = 17 -> 55
      [] t \in {15, 16, 18} -> 51
      [] OTHER -> 45

\* C11: read accepts the entry under the cursor if and only if its tag is one of 1,
\* 3-12, 15-20 and the variant's since does not exceed the version; another tag
\* fails as unknown, a known tag introduced later fails as unsupported, and a
\* version equal to since is accepted.
TagAcceptance ==
    [][(pc = "read" /\ offset < input.count /\ pos < Len(input.entries))
        => LET t == tag(input.entries[pos + 1])
           IN  IF t \notin ({1} \cup (3..12) \cup (15..20))
               THEN pc' = "raised" /\ err' = "UnknownTag"
               ELSE IF IntroducedIn(t) > version
               THEN pc' = "raised" /\ err' = "Unsupported"
               ELSE pc' = "read" /\ pos' = pos + 1 /\ err' = "none"]_vars

\* A Module entry refused at version 52.
ModuleRefusedAt52 ==
    /\ pc = "raised" /\ err = "Unsupported" /\ version = 52
    /\ pos < Len(input.entries) /\ tag(input.entries[pos + 1]) = 19

\* The byte orders of n entries
Orders(n) == {s \in [1..n -> 1..n] : \A i, j \in 1..n : i # j => s[i] # s[j]}

\* The entries in the order ord, each reference renumbered to the offset its
\* referent takes in that order; a reference to a slot where no entry starts
\* becomes a reference to slot 0, where none starts either
Permute(entries, ord) ==
    LET at(p) == 1 + Slots([q \in 1..(p - 1) |-> entries[ord[q]]])
        renum(o) == IF \E p \in 1..Len(ord) : OffsetOf(entries, ord[p]) = o
                    THEN at(CHOOSE p \in 1..Len(ord) : OffsetOf(entries, ord[p]) = o)
                    ELSE 0
    IN  [p \in 1..Len(ord) |->
            LET e == entries[ord[p]]
            IN  [i \in 1..Len(e) |-> IF i \in RefFields(tag(e)) THEN renum(e[i]) ELSE e[i]]]

\* C12: the pool read returns is the one read computes as a function of the bytes,
\* and for every byte order of the entries, references renumbered, read returns a
\* pool that holds at each entry's new offset the constant held at its old offset.
FixupOrderInvariant ==
    Returned =>
        /\ read(version, input.entries) = [ok |-> TRUE, forward |-> _forward_entries]
        /\ \A ord \in Orders(Len(input.entries)) :
              LET q == Permute(input.entries, ord)
                  r == read(version, q)
              IN  /\ r.ok
                  /\ DOMAIN r.forward = {OffsetOf(q, p) : p \in 1..Len(q)}
                  /\ \A p \in 1..Len(q) :
                        r.forward[OffsetOf(q, p)]
                            = _forward_entries[OffsetOf(input.entries, ord[p])]

\* A returned pool read from a reference entry placed before its class, itself
\* before its Utf8, with a wide entry or a fourth entry beside them.
DeferredBeforeReferent ==
    /\ Returned /\ Len(input.entries) = MaxPerm
    /\ \E r, c \in 1..Len(input.entries) :
          /\ tag(input.entries[r]) \in {9, 10, 11} /\ tag(input.entries[c]) = 7
          /\ r < c
          /\ input.entries[r][2] = OffsetOf(input.entries, c)
          /\ input.entries[c][2] > OffsetOf(input.entries, c)

\* C13: the count that write patches in is _index as it stands when write
\* finishes.
WriteCountIsNextIndex ==
    (pc = "idle" /\ last.op = "written") => output.count = _index

\* The tags of the occupied slots from index i up to _index, in ascending order
RECURSIVE OccupiedTags(_)
OccupiedTags(i) ==
    IF i >= _index THEN <<>>
    ELSE IF i \in DOMAIN _forward_entries
    THEN <<tag(_forward_entries[i])>> \o OccupiedTags(i + 1)
    ELSE OccupiedTags(i + 1)

\* C14: write raises nothing, passing over the unoccupied slots below _index, and
\* what it has emitted when it finishes is one entry for each occupied slot from 1
\* up to _index, in ascending order.
WritePassesOverGaps ==
    /\ (pc = "idle" /\ last.op = "write") => err = "none"
    /\ (pc = "idle" /\ last.op = "written")
          => [i \in 1..Len(output.entries) |-> tag(output.entries[i])] = OccupiedTags(1)

\* C15: add of an Index returns the Index's value, and both add of an Index and
\* __setitem__ of an Index leave _forward_entries, _backward_entries and _index as
\* they were, whatever the value and whatever slot it names.
IndexIsNoOp ==
    [][(pc = "idle" /\ pc' = "idle" /\ last'.op \in {"add", "setitem"}
           /\ tag(last'.arg) = -1)
        => (/\ UNCHANGED poolVars
            /\ last'.op = "add" => last'.ret = last'.arg[2])]_vars

\* add of an Index naming a slot beyond _index answered on a pool that holds a
\* constant, the slot still unoccupied.
IndexBeyondAdded ==
    /\ pc = "idle" /\ last.op = "add" /\ tag(last.arg) = -1
    /\ last.ret = last.arg[2] /\ last.ret > _index
    /\ _forward_entries # <<>> /\ last.ret \notin DOMAIN _forward_entries

\* C16: pool[i], get(i) and get(i, do_raise=True), called without a default, return
\* the stored constant when slot i holds one; when it holds none the first two
\* return an Index whose value is i and the third raises; and no lookup changes
\* _forward_entries, _backward_entries or _index.
LookupAnswers ==
    /\ []((pc = "idle" /\ last.op \in {"getitem", "get"} /\ last.arg = None)
            => IF last.at \in DOMAIN _forward_entries
               THEN err = "none" /\ last.was = _forward_entries[last.at]
               ELSE IF last.op = "get" /\ last.new
               THEN err = "IndexError"
               ELSE err = "none" /\ last.was = Index(last.at))
    /\ [][(pc = "idle" /\ pc' = "idle" /\ last'.op \in {"getitem", "get"})
            => UNCHANGED poolVars]_vars

\* pool[i] of the second slot of a Long answered with Index(i).
WideSecondSlotLooked ==
    /\ pc = "idle" /\ last.op = "getitem" /\ err = "none"
    /\ (last.at - 1) \in DOMAIN _forward_entries
    /\ wide(tag(_forward_entries[last.at - 1]))
    /\ last.at \notin DOMAIN _forward_entries /\ last.at < _index
    /\ last.was = Index(last.at)

\* C17 as stated: get_utf8(i) returns the payload when slot i holds a Utf8, and
\* fails with the kind-mismatch error when it holds a constant of another kind,
\* with or without a default.
GetUtf8KindChecked ==
    (pc = "idle" /\ last.op = "get_utf8" /\ last.at \in DOMAIN _forward_entries)
        => IF tag(_forward_entries[last.at]) = 1
           THEN err = "none" /\ last.was = Str(_forward_entries[last.at][2])
           ELSE err = "TypeError"

\* C17 amended: the same when no default is supplied; with a default, get_utf8 of
\* a slot that holds a constant of another kind returns the default and raises
\* nothing.
GetUtf8KindCheckedNoDefault ==
    (pc = "idle" /\ last.op = "get_utf8" /\ last.at \in DOMAIN _forward_entries)
        => IF tag(_forward_entries[last.at]) = 1
           THEN err = "none" /\ last.was = Str(_forward_entries[last.at][2])
           ELSE IF last.arg = None
           THEN err = "TypeError"
           ELSE err = "none" /\ last.was = last.arg

\* get_utf8 without a default refused on a slot that holds a Class.
GetUtf8OfClassRefused ==
    /\ pc = "idle" /\ last.op = "get_utf8" /\ last.arg = None
    /\ last.at \in DOMAIN _forward_entries
    /\ tag(_forward_entries[last.at]) = 7
    /\ err = "TypeError"

\* The stream ends inside an entry the count declares
EndsEarly ==
    \/ input.count > 1 + Slots(input.entries)
    \/ \E p \in 1..Len(input.entries) :
          \/ CutShort(input.entries[p])
          \/ (tag(input.entries[p]) = 1 /\ Len(input.entries[p]) = 3)

\* C18: read of a stream that ends inside an entry of the pool returns no pool.
TruncationFails == EndsEarly => ~Returned

\* A jump instruction, a return instruction or athrow
Terminating(instruction) == instruction.kind \in {"jump", "return", "athrow"}

\* C19: append and insert of a jump, a return or athrow with do_raise true raise
\* and leave the block's instructions as they were; with do_raise false append
\* succeeds and puts the instruction at the end, and insert succeeds and puts it
\* at the index given (an index of the list, or its length).
BlockApiRejects ==
    [][(/\ bcall'.op \in {"append", "insert"}
        /\ bcall'.arg.form # "other"
        /\ Terminating(Coerce(bcall'.arg)))
       => LET b == bcall'.block
              l == blocks[b]._instructions
              after == blocks'[b]._instructions
              i == Coerce(bcall'.arg)
          IN  IF bcall'.do_raise
              THEN bcall'.err # "none" /\ blocks' = blocks
              ELSE /\ bcall'.err = "none"
                   /\ bcall'.op = "append" => after = l \o <<i>>
                   /\ bcall'.op = "insert" =>
                         \A index \in 0..Len(l) :
                             InsertCall(b, index, bcall'.arg, FALSE)
                                 => (/\ Len(after) = Len(l) + 1
                                     /\ after[index + 1] = i
                                     /\ \A j \in 1..index : after[j] = l[j]
                                     /\ \A j \in (index + 1)..Len(l) : after[j + 1] = l[j])]_vars

\* append of a jump with do_raise true refused on a block that holds instructions.
JumpAppendRefused ==
    /\ bcall.op = "append" /\ bcall.do_raise /\ bcall.err = "ValueError"
    /\ bcall.arg = Given("instance", Insn("jump", 1))
    /\ Len(blocks[bcall.block]._instructions) >= 2

\* C20: while do_raise false is never passed, no block holds a jump instruction, a
\* return instruction or athrow.
NoTerminatorInBlock ==
    \A b \in DOMAIN blocks : \A j \in 1..Len(blocks[b]._instructions) :
        ~Terminating(blocks[b]._instructions[j])

\* C21: an InsnReturnBlock or InsnRethrowBlock holds no instructions in any state
\* reached through construction, append, insert and __setitem__: len(block) == 0
TerminalBlocksEmpty ==
    \A b \in DOMAIN blocks :
        blocks[b].label \in TerminalLabels => Len(blocks[b]._instructions) = 0

\* Two blocks with the same label and instruction sequences equal element by element
Structural(a, b) ==
    /\ blocks[a].label = blocks[b].label
    /\ Len(blocks[a]._instructions) = Len(blocks[b]._instructions)
    /\ \A i \in 1..Len(blocks[a]._instructions) :
            InsnEq(blocks[a]._instructions[i], blocks[b]._instructions[i])

\* C22: two InsnBlocks compare equal exactly when they have the same label and
\* element-wise equal instruction sequences; two distinct block objects have distinct
\* hashes even when they compare equal; and no call that mutates the instructions of
\* a block changes its hash
BlockEqualityAndHash ==
    /\ [](\A a, b \in DOMAIN blocks :
            /\ block_eq(a, b) <=> Structural(a, b)
            /\ a # b => block_hash(a) # block_hash(b))
    /\ [][\A b \in DOMAIN blocks \cap DOMAIN blocks' : block_hash(b)' = block_hash(b)]_vars

\* C22 witness: a block and its copy, each appended to since, compare equal
EqualAfterMutation ==
    /\ Copied \in DOMAIN blocks
    /\ bcall.op = "append" /\ bcall.err = "none" /\ bcall.block = Copied
    /\ blocks[Original]._instructions # <<>>
    /\ block_eq(Original, Copied)

\* C23: copy(label, deep) makes a new block object; its label is the label given, 0
\* included, or the label of the original when label is None; its instructions are
\* element-wise equal to the original's and held in a list of its own, so that a
\* later call on one block leaves the other as it was; the original is unchanged;
\* with deep true every instruction of the copy is a clone, with deep false the copy
\* holds the instruction objects of the original
CopyContract ==
    /\ [][bcall'.op = "copy" =>
            LET original == blocks[Original]  new_block == blocks'[Copied]
                n == Len(original._instructions)
            IN  /\ Copied \notin DOMAIN blocks
                /\ blocks'[Original] = original
                /\ new_block.label = (IF \E label \in {0} : BlockCopyCall(label, bcall'.do_raise)
                                      THEN 0 ELSE original.label)
                /\ Len(new_block._instructions) = n
                /\ \A i \in 1..n :
                      /\ InsnEq(new_block._instructions[i], original._instructions[i])
                      /\ IF bcall'.do_raise
                         THEN new_block._instructions[i] = Clone(original._instructions[i])
                         ELSE new_block._instructions[i] = original._instructions[i]]_vars
    /\ [][(Copied \in DOMAIN blocks /\ bcall'.op # "copy") =>
            \A b \in DOMAIN blocks : b # bcall'.block => blocks'[b] = blocks[b]]_vars

\* C23 witness: a deep copy relabelled 0 of a block that holds an instruction, and
\* then a call that changed the copy
CopiedThenMutated ==
    /\ Copied \in DOMAIN blocks
    /\ blocks[Copied].label = 0
    /\ blocks[Original]._instructions # <<>>
    /\ \E i \in 1..Len(blocks[Copied]._instructions) : blocks[Copied]._instructions[i].id = 2
    /\ bcall.op = "append" /\ bcall.err = "none" /\ bcall.block = Copied

\* The bytes UTF8.write owes a code point: two for U+0000, else as many as UTF-8 takes
ByteWidth(c) ==
    IF c = 0 THEN 2 ELSE IF c < 128 THEN 1 ELSE IF c < 2048 THEN 2
    ELSE IF c < 65536 THEN 3 ELSE 4

RECURSIVE ByteLength(_)
ByteLength(value) ==
    IF value = <<>> THEN 0 ELSE ByteWidth(Head(value)) + ByteLength(Tail(value))

\* C24: for every string s that holds no surrogate, UTF8.read of the bytes that
\* UTF8(s).write emits is a constant of value s; the payload emitted holds no 00 byte,
\* U+0000 alone is emitted as exactly C0 80, and the two-byte length prefix is the
\* byte length of the payload, U+0000 counting as two bytes
MutfRoundTrip ==
    /\ pc = "reread" => last.ret = last.arg
    /\ pc \in {"written", "reread"} =>
          LET value == last.arg[2]
              payload == SubSeq(output, 3, Len(output))
          IN  /\ \A i \in 1..Len(payload) : payload[i] # 0
              /\ value = <<0>> => payload = <<192, 128>>
              /\ Len(payload) = ByteLength(value)
              /\ unpack_H(SubSeq(output, 1, 2)) = Len(payload)

\* C24 witness: a string of U+0000 and a supplementary code point, written and read back
NulAndSupplementaryReread ==
    /\ pc = "reread"
    /\ last.arg = UTF8(<<0, 65536>>)
    /\ output = <<0, 6, 192, 128, 240, 144, 128, 128>>

\* C25: for every payload b of a Utf8 entry of a class file, UTF8.write of UTF8.read(b),
\* with no edit in between, emits the length prefix and the bytes b that were read
FileBytesRoundTrip ==
    pc = "rewritten" => output = input

\* C26: in every pool state reached through read, add, __setitem__ and clear, _index
\* is greater than every occupied index and than the second slot of every Long and
\* Double, so the next add lands on no occupied slot and on no second slot; and
\* _index never decreases except through clear
NextIndexBeyondAll ==
    /\ [](pc = "idle" =>
            \A i \in DOMAIN _forward_entries :
                /\ i < _index
                /\ wide(tag(_forward_entries[i])) => i + 1 < _index)
    /\ [][(pc = "idle" /\ pc' = "idle" /\ last'.op # "clear") => _index' >= _index]_vars

\* C27: after any sequence of add and clear on a pool constructed empty, the forward
\* and backward maps are inverse to each other; an index add has returned keeps
\* holding the same constant until clear; and clear leaves both maps empty and
\* _index at 1
AddClearInverse ==
    /\ [](onlyAdd =>
            /\ \A i \in DOMAIN _forward_entries :
                  /\ _forward_entries[i] \in DOMAIN _backward_entries
                  /\ _backward_entries[_forward_entries[i]] = i
            /\ \A c \in DOMAIN _backward_entries :
                  /\ _backward_entries[c] \in DOMAIN _forward_entries
                  /\ _forward_entries[_backward_entries[c]] = c)
    /\ [][(onlyAdd /\ onlyAdd' /\ last'.op # "clear") =>
            \A i \in DOMAIN _forward_entries :
                i \in DOMAIN _forward_entries' /\ _forward_entries'[i] = _forward_entries[i]]_vars
    /\ [][last'.op = "clear" =>
            _forward_entries' = <<>> /\ _backward_entries' = <<>> /\ _index' = 1]_vars

\* C27 witness: a constant added, after a Long, to a pool built by add alone
AddedAfterLong ==
    /\ onlyAdd /\ pc = "idle" /\ last.op = "add" /\ last.new
    /\ Cardinality(DOMAIN _forward_entries) >= 2
    /\ \E i \in DOMAIN _forward_entries : i < last.ret /\ tag(_forward_entries[i]) = 5

\* The constants a constant refers to
Referents(c) ==
    CASE tag(c) \in {7, 8, 16, 19, 20} -> {UTF8(c[2])}
      [] tag(c) = 12 -> {UTF8(c[2]), UTF8(c[3])}
      [] tag(c) \in {9, 10, 11} -> {c[2], c[3]}
      [] tag(c) \in {15, 17, 18} -> {c[3]}
      [] OTHER -> {}

\* Every referent of every constant of the pool is in the pool
ClosedUnderReferences ==
    \A i \in DOMAIN _forward_entries : \A r \in Referents(_forward_entries[i]) :
        \E j \in DOMAIN _forward_entries : ConstEq(_forward_entries[j], r)

\* Every reference index emitted is an occupied slot below the count emitted, and
\* holds the referent, of the declared kind, of the constant the entry was written for
EmittedReferencesHold ==
    \A p \in 1..Len(output.entries) :
        LET e == output.entries[p]
            c == Get(_forward_entries, OffsetOf(output.entries, p))
        IN  \A f \in RefFields(tag(e)) :
                LET referent == Get(_forward_entries, e[f])
                IN  /\ referent # None
                    /\ e[f] < output.count
                    /\ tag(referent) \in DeclaredKinds(tag(e), f)
                    /\ c # None
                    /\ IF tag(referent) = 1 THEN c[f] = referent[2] ELSE c[f] = referent

\* C28: write terminates although the writes of the constants add missing referents
\* to the pool during the walk; when it has finished, every referent of every
\* constant of the pool is in the pool, and every reference index emitted is an
\* occupied slot below the emitted count that holds the referent of the declared
\* kind; a second write with nothing called in between adds nothing and emits the
\* same bytes
WriteClosesPool ==
    /\ [](pc = "write" => <>(pc = "idle"))
    /\ []((pc = "idle" /\ last.op = "written") =>
            /\ ClosedUnderReferences
            /\ EmittedReferencesHold
            /\ last.new => (_index = last.at /\ output = last.was))

====
